---- MODULE Spec2Model ----
(***************************************************************************)
(* The annotation-editing engine of labelImgPlus: the Canvas widget        *)
(* (src/app/canvas.py) and the Annotation objects it edits                 *)
(* (src/app/objects.py), driven by the mouse, the keyboard, the auto-save  *)
(* timer and the main window (src/annotator.py).                           *)
(*                                                                         *)
(* Python objects are modelled as a heap: objs maps an object id to the    *)
(* fields of one Annotation; annotations, selected_annos and hovered_anno  *)
(* hold ids (references), the clipboard holds deep copies (values).        *)
(* None is 0 for a reference, "" for a string and <<>> for a tuple.        *)
(***************************************************************************)
EXTENDS Integers, Sequences, FiniteSets, TLC

\* ---------------------------------------------------------------- bounds
\* Size of the image every load_image reads.
ImgW == 15
ImgH == 15
\* Events per behaviour of Spec.
MaxSteps == 5
\* move_annotation calls per behaviour of MoveSpec.
MaxMoveSteps == 2
\* Pointer moves per behaviour of HoverSpec.
MaxHoverSteps == 1
\* Largest edge width get_hovered is examined with.
MaxEdgeWidth == 5

\* ------------------------------------------------------------ constants
\* The window's size (MainWindow.resize).
CanvasW == 800
CanvasH == 500

\* HoverType, an integer enum used with bitwise arithmetic.
NONE == 0
FULL == 1
TOP == 2
BOTTOM == 4
LEFT == 8
RIGHT == 16
TOP_LEFT == TOP + LEFT
TOP_RIGHT == TOP + RIGHT
BOTTOM_LEFT == BOTTOM + LEFT
BOTTOM_RIGHT == BOTTOM + RIGHT

\* Canvas.labels, as the label map sets it.
Labels == <<"cat", "dog">>
LabelSet == {Labels[i] : i \in DOMAIN Labels}

\* ---------------------------------------------------------------- inputs
\* Image-space positions the pointer visits.
CursorPoints == {<<0, 0>>, <<5, 5>>, <<10, 10>>, <<15, 15>>, <<-5, 20>>}
\* Names of the images of the opened directory.
ImageNames == {"a.png", "b.png"}
\* What the label picker returns: a label, or "" when dismissed.
Picks == LabelSet \cup {""}
\* MoveSpec: the coordinates of the rectangles moved and the deltas applied.
MoveXs == {0, 5, ImgW}
MoveYs == {0, 10, ImgH}
MoveDeltas ==
    {<<delta_x, delta_y>> : delta_x \in {-7, 0, 7}, delta_y \in {-7, 0, 7}}
        \cup {<<-60, -60>>, <<5, 5>>}
\* PointerSpec: the positions of the pointer.
PointerPoints ==
    CursorPoints \cup {<<15, 0>>, <<0, 15>>, <<10, 5>>, <<20, 20>>, <<3, 3>>}
\* Sets of held arrow keys.
ArrowKeySets == {{"Right"}, {"Up", "Left"}, {"Up", "Down", "Right"}}

VARIABLES
    annotations,        \* Canvas.annotations: the store, a list of references
    objs,               \* the Annotation objects the canvas can still reach
    selected_annos,     \* Canvas.selected_annos: a list of references
    hovered_anno,       \* Canvas.hovered_anno: a reference or None
    clipboard,          \* Canvas.clipboard: a list of deep copies
    annotating_state,   \* Canvas.annotating_state: "IDLE", "READY", "DRAWING"
    anno_first_corner,  \* Canvas.anno_first_corner: a point or None
    quick_create,       \* Canvas.quick_create
    previous_label,     \* Canvas.previous_label
    unsaved_changes,    \* Canvas.unsaved_changes: the dirty flag
    image_name,         \* Canvas.image_name
    pixmap,             \* Canvas.pixmap: <<width, height>>, <<0, 0>> when null
    cursor_position,    \* MouseHandler.cursor_position, in image space
    left_clicked,       \* MouseHandler.left_clicked
    canvas_size,        \* QWidget.size() of the canvas: <<width, height>>
    zoom_level,         \* ZoomHandler.zoom_level, a fraction <<num, den>>
    saved,              \* the save_annotations calls of the last event
    raised,             \* the last event ended in a ZeroDivisionError
    steps               \* number of events so far

vars == <<annotations, objs, selected_annos, hovered_anno, clipboard,
          annotating_state, anno_first_corner, quick_create, previous_label,
          unsaved_changes, image_name, pixmap, cursor_position, left_clicked,
          canvas_size, zoom_level, saved, raised, steps>>

\* ------------------------------------------------------------- utilities
Range(s) == {s[i] : i \in DOMAIN s}
Abs(x) == IF x < 0 THEN -x ELSE x
Min2(a, b) == IF a <= b THEN a ELSE b
Max2(a, b) == IF a >= b THEN a ELSE b
SetMax(S) == CHOOSE x \in S : \A y \in S : y <= x
Reverse(s) == [i \in 1..Len(s) |-> s[Len(s) + 1 - i]]
IndexOf(s, x) == CHOOSE i \in DOMAIN s : s[i] = x
\* h & bit # 0, for a single bit and h >= 0
HasBit(h, bit) == (h \div bit) % 2 = 1

\* clip_value(value, lower, upper)
clip_value(value, lower, upper) == Max2(lower, Min2(value, upper))

\* Python's round(n / d) for n >= 0, d > 0: halves go to the even neighbour.
PyRound(n, d) ==
    LET q == n \div d
        r == n % d
    IN  IF 2 * r < d THEN q
        ELSE IF 2 * r > d THEN q + 1
        ELSE IF q % 2 = 0 THEN q ELSE q + 1

\* The whole canvas as one record, so that the methods compose. An event
\* starts with no save_annotations call made and no exception raised.
Self ==
    [annotations |-> annotations, objs |-> objs,
     selected_annos |-> selected_annos, hovered_anno |-> hovered_anno,
     clipboard |-> clipboard, annotating_state |-> annotating_state,
     anno_first_corner |-> anno_first_corner, quick_create |-> quick_create,
     previous_label |-> previous_label, unsaved_changes |-> unsaved_changes,
     image_name |-> image_name, pixmap |-> pixmap,
     cursor_position |-> cursor_position, left_clicked |-> left_clicked,
     canvas_size |-> canvas_size, zoom_level |-> zoom_level,
     saved |-> <<>>, raised |-> FALSE]

\* ------------------------------------------------------------ Annotation
\* Annotation(position, category_id, label_name): a fresh object.
\* category_id is labels.index(label_name) + 1 throughout, so it is not kept.
Annotation(position, label_name) ==
    [position |-> position, label_name |-> label_name, hovered |-> NONE,
     selected |-> FALSE, hidden |-> FALSE]

\* Annotation.__eq__
AnnotationEq(a, b) ==
    a.position = b.position /\ a.label_name = b.label_name

\* get_hovered without the test of the expanded box.
get_hovered_ungated(position, mouse_position, edge_width) ==
    LET hover_type ==
            (IF Abs(mouse_position[2] - position[2]) <= edge_width THEN TOP ELSE 0)
          + (IF Abs(mouse_position[1] - position[1]) <= edge_width THEN LEFT ELSE 0)
          + (IF Abs(mouse_position[1] - position[3]) <= edge_width THEN RIGHT ELSE 0)
          + (IF Abs(mouse_position[2] - position[4]) <= edge_width THEN BOTTOM ELSE 0)
    IN  IF hover_type # NONE THEN hover_type ELSE FULL

\* get_hovered with an edge matching only below edge_width.
get_hovered_strict(position, mouse_position, edge_width) ==
    LET x_pos == mouse_position[1]
        y_pos == mouse_position[2]
    IN  IF ~(/\ position[1] - edge_width <= x_pos
             /\ x_pos <= position[3] + edge_width
             /\ position[2] - edge_width <= y_pos
             /\ y_pos <= position[4] + edge_width)
        THEN NONE
        ELSE LET hover_type ==
                     (IF Abs(y_pos - position[2]) < edge_width THEN TOP ELSE 0)
                   + (IF Abs(x_pos - position[1]) < edge_width THEN LEFT ELSE 0)
                   + (IF Abs(x_pos - position[3]) < edge_width THEN RIGHT ELSE 0)
                   + (IF Abs(y_pos - position[4]) < edge_width THEN BOTTOM ELSE 0)
             IN  IF hover_type # NONE THEN hover_type ELSE FULL

\* Annotation.get_hovered
get_hovered(position, mouse_position, edge_width) ==
    LET x_pos == mouse_position[1]
        y_pos == mouse_position[2]
        left == position[1]
        top == position[2]
        right == position[3]
        bottom == position[4]
    IN  IF ~(/\ left - edge_width <= x_pos /\ x_pos <= right + edge_width
             /\ top - edge_width <= y_pos /\ y_pos <= bottom + edge_width)
        THEN NONE
        ELSE LET hover_type ==
                     (IF Abs(y_pos - top) <= edge_width THEN TOP ELSE 0)
                   + (IF Abs(x_pos - left) <= edge_width THEN LEFT ELSE 0)
                   + (IF Abs(x_pos - right) <= edge_width THEN RIGHT ELSE 0)
                   + (IF Abs(y_pos - bottom) <= edge_width THEN BOTTOM ELSE 0)
             IN  IF hover_type # NONE THEN hover_type ELSE FULL

\* ---------------------------------------------------------------- Canvas
\* What get_scale gives when canvas.width() / canvas.height() divides by
\* zero: no fraction.
ZeroDivisionError == <<>>

\* get_scale with the comparison of the aspect ratios turned around.
get_scale_larger_ratio(s) ==
    LET canvas == s.canvas_size
        image == s.pixmap
    IN  IF image[1] = 0 \/ image[2] = 0 THEN <<1, 1>>
        ELSE IF canvas[2] = 0 THEN ZeroDivisionError
        ELSE LET scale == IF canvas[1] * image[2] > image[1] * canvas[2]
                          THEN <<canvas[1], image[1]>>
                          ELSE <<canvas[2], image[2]>>
             IN  <<scale[1] * s.zoom_level[1], scale[2] * s.zoom_level[2]>>

\* Canvas.get_scale, as the fraction <<numerator, denominator>>. A pixmap
\* with a zero dimension is a null pixmap; the comparison of the two aspect
\* ratios is made on the cross products.
get_scale(s) ==
    LET canvas == s.canvas_size
        image == s.pixmap
    IN  IF image[1] = 0 \/ image[2] = 0 THEN <<1, 1>>
        ELSE IF canvas[2] = 0 THEN ZeroDivisionError
        ELSE LET scale == IF canvas[1] * image[2] < image[1] * canvas[2]
                          THEN <<canvas[1], image[1]>>
                          ELSE <<canvas[2], image[2]>>
             IN  <<scale[1] * s.zoom_level[1], scale[2] * s.zoom_level[2]>>

\* round(8 / self.get_scale()) divides by zero, in get_scale or by a scale
\* of 0.
edge_width_raises(s) ==
    get_scale(s) = ZeroDivisionError \/ get_scale(s)[1] = 0

\* edge_width of set_hovered_annotation: max(round(8 / scale), 4)
edge_width(s) ==
    LET scale == get_scale(s)
    IN  Max2(PyRound(8 * scale[2], scale[1]), 4)

\* get_visible_annotations giving the hidden annotations too.
get_visible_annotations_all(s) == s.annotations

\* Canvas.get_visible_annotations
get_visible_annotations(s) ==
    SelectSeq(s.annotations, LAMBDA a : ~s.objs[a].hidden)

\* Canvas.set_hovered_annotation
set_hovered_annotation(s) ==
    LET visible == get_visible_annotations(s)
        cleared == [a \in DOMAIN s.objs |->
                       IF a \in Range(visible)
                       THEN [s.objs[a] EXCEPT !.hovered = NONE]
                       ELSE s.objs[a]]
        hit(a) == get_hovered(cleared[a].position, s.cursor_position,
                              edge_width(s))
        hits == {i \in DOMAIN visible : hit(visible[i]) # NONE}
    IN  IF s.annotating_state # "IDLE"
        THEN [s EXCEPT !.objs = cleared, !.hovered_anno = 0]
        ELSE IF edge_width_raises(s)
        THEN [s EXCEPT !.objs = cleared, !.hovered_anno = 0, !.raised = TRUE]
        ELSE IF hits = {}
        THEN [s EXCEPT !.objs = cleared, !.hovered_anno = 0]
        ELSE LET a == visible[SetMax(hits)]
             IN  [s EXCEPT !.objs = [cleared EXCEPT ![a].hovered = hit(a)],
                           !.hovered_anno = a]

\* Canvas.update: the cursor icon and the repaint are not state of the engine.
update(s) == set_hovered_annotation(s)

\* Canvas.add_selected_annotation: "in" compares with Annotation.__eq__
add_selected_annotation(s, annotation) ==
    IF \/ annotation = 0
       \/ \E i \in DOMAIN s.selected_annos :
              \/ s.selected_annos[i] = annotation
              \/ AnnotationEq(s.objs[s.selected_annos[i]], s.objs[annotation])
    THEN s
    ELSE [s EXCEPT !.selected_annos = Append(@, annotation),
                   !.objs[annotation].selected = TRUE]

\* Canvas.set_selected_annotation
set_selected_annotation(s, annotation) ==
    add_selected_annotation(
        [s EXCEPT !.objs = [a \in DOMAIN s.objs |->
                               IF a \in Range(s.annotations)
                               THEN [s.objs[a] EXCEPT !.selected = FALSE]
                               ELSE s.objs[a]],
                  !.selected_annos = <<>>],
        annotation)

\* set_annotating_state whose IDLE branch keeps anno_first_corner.
set_annotating_state_corner_kept(s, state) ==
    IF state = "IDLE"
    THEN update([s EXCEPT !.annotating_state = "IDLE"])
    ELSE IF state = "READY"
    THEN update(set_hovered_annotation(set_selected_annotation(
             [s EXCEPT !.annotating_state = "READY"], 0)))
    ELSE update([s EXCEPT !.annotating_state = "DRAWING",
                          !.anno_first_corner = s.cursor_position])

\* Canvas.set_annotating_state
set_annotating_state(s, state) ==
    IF state = "IDLE"
    THEN update([s EXCEPT !.annotating_state = "IDLE",
                          !.anno_first_corner = <<>>])
    ELSE IF state = "READY"
    THEN update(set_hovered_annotation(set_selected_annotation(
             [s EXCEPT !.annotating_state = "READY"], 0)))
    ELSE update([s EXCEPT !.annotating_state = "DRAWING",
                          !.anno_first_corner = s.cursor_position])

\* A reference no live object has.
NewId(s) == SetMax(DOMAIN s.objs \cup {0}) + 1

\* create_annotation without the four clip_value calls.
create_annotation_unclipped(s, label_name, picked) ==
    LET x_a == s.anno_first_corner[1]
        x_b == s.cursor_position[1]
        y_a == s.anno_first_corner[2]
        y_b == s.cursor_position[2]
        position == <<Min2(x_a, x_b), Min2(y_a, y_b),
                      Max2(x_a, x_b), Max2(y_a, y_b)>>
        name == IF label_name = "" THEN picked ELSE label_name
        annotation == NewId(s)
    IN  IF name = "" THEN s
        ELSE [set_selected_annotation(
                 [s EXCEPT !.previous_label = name,
                           !.objs = [a \in DOMAIN s.objs \cup {annotation} |->
                                        IF a = annotation
                                        THEN Annotation(position, name)
                                        ELSE s.objs[a]],
                           !.annotations = Append(@, annotation)],
                 annotation)
              EXCEPT !.unsaved_changes = TRUE]

\* Canvas.create_annotation(label_name); picked is what the label picker
\* returns if it is opened.
create_annotation(s, label_name, picked) ==
    LET right_border == s.pixmap[1]
        bottom_border == s.pixmap[2]
        x_a == clip_value(s.anno_first_corner[1], 0, right_border)
        x_b == clip_value(s.cursor_position[1], 0, right_border)
        y_a == clip_value(s.anno_first_corner[2], 0, bottom_border)
        y_b == clip_value(s.cursor_position[2], 0, bottom_border)
        position == <<Min2(x_a, x_b), Min2(y_a, y_b),
                      Max2(x_a, x_b), Max2(y_a, y_b)>>
        name == IF label_name = "" THEN picked ELSE label_name
        annotation == NewId(s)
    IN  IF name = "" THEN s
        ELSE [set_selected_annotation(
                 [s EXCEPT !.previous_label = name,
                           !.objs = [a \in DOMAIN s.objs \cup {annotation} |->
                                        IF a = annotation
                                        THEN Annotation(position, name)
                                        ELSE s.objs[a]],
                           !.annotations = Append(@, annotation)],
                 annotation)
              EXCEPT !.unsaved_changes = TRUE]

\* The edge arithmetic without the can_move_* conditions.
move_axis_unchecked(lo, hi, delta, border, hover_type, skip, lo_bit, hi_bit) ==
    IF skip THEN <<lo, hi>>
    ELSE IF HasBit(hover_type, lo_bit) THEN <<lo + delta, hi>>
    ELSE IF HasBit(hover_type, hi_bit) THEN <<lo, hi + delta>>
    ELSE <<lo + delta, hi + delta>>

\* The edge arithmetic with a body drag that moves whichever edge can move.
move_axis_either(lo, hi, delta, border, hover_type, skip, lo_bit, hi_bit) ==
    LET can_move_lo == 0 <= lo + delta /\ lo + delta <= border
        can_move_hi == 0 <= hi + delta /\ hi + delta <= border
    IN  IF skip THEN <<lo, hi>>
        ELSE IF HasBit(hover_type, lo_bit) /\ can_move_lo
        THEN <<lo + delta, hi>>
        ELSE IF HasBit(hover_type, hi_bit) /\ can_move_hi
        THEN <<lo, hi + delta>>
        ELSE <<IF can_move_lo THEN lo + delta ELSE lo,
               IF can_move_hi THEN hi + delta ELSE hi>>

\* The x or y half of move_annotation's edge arithmetic: the edges <<lo, hi>>
\* of one axis after the event. skip is the pure handle of the other axis pair
\* (hover_type in (TOP, BOTTOM) for x), lo_bit/hi_bit the handles of this axis.
move_axis(lo, hi, delta, border, hover_type, skip, lo_bit, hi_bit) ==
    LET can_move_lo == 0 <= lo + delta /\ lo + delta <= border
        can_move_hi == 0 <= hi + delta /\ hi + delta <= border
    IN  IF skip THEN <<lo, hi>>
        ELSE IF HasBit(hover_type, lo_bit) /\ can_move_lo
        THEN <<lo + delta, hi>>
        ELSE IF HasBit(hover_type, hi_bit) /\ can_move_hi
        THEN <<lo, hi + delta>>
        ELSE IF can_move_lo /\ can_move_hi
        THEN <<lo + delta, hi + delta>>
        ELSE <<lo, hi>>

\* move_annotation without the flip of the hover types.
flip_hover_omitted(hover_type, xs, ys) == hover_type

\* "Flip the left/right and top/bottom hover types": the hover value stored
\* after the event, from the unsorted edges xs and ys.
flip_hover(hover_type, xs, ys) ==
    LET after_x == IF xs[1] > xs[2]
                   THEN hover_type
                        + (IF HasBit(hover_type, LEFT) THEN LEFT ELSE -LEFT)
                   ELSE hover_type
    IN  IF ys[1] > ys[2]
        THEN after_x + (IF HasBit(hover_type, TOP) THEN TOP ELSE -TOP)
        ELSE after_x

\* sorted([lo, hi]) left out: the edges as the arithmetic leaves them.
sorted_omitted(pair) == pair

\* sorted([lo, hi])
sorted(pair) == <<Min2(pair[1], pair[2]), Max2(pair[1], pair[2])>>

\* Canvas.move_annotation(annotation, delta)
move_annotation(s, annotation, delta) ==
    LET position == s.objs[annotation].position
        hover_type == s.objs[annotation].hovered
        xs == move_axis(position[1], position[3], delta[1], s.pixmap[1],
                        hover_type, hover_type \in {TOP, BOTTOM}, LEFT, RIGHT)
        ys == move_axis(position[2], position[4], delta[2], s.pixmap[2],
                        hover_type, hover_type \in {LEFT, RIGHT}, TOP, BOTTOM)
        x == sorted(xs)
        y == sorted(ys)
    IN  [s EXCEPT !.objs[annotation].hovered = flip_hover(hover_type, xs, ys),
                  !.objs[annotation].position = <<x[1], y[1], x[2], y[2]>>,
                  !.unsaved_changes = TRUE]

\* The delta move_annotation_arrow computes from the held keys.
arrow_delta(pressed_keys) ==
    <<(IF "Left" \in pressed_keys THEN -1 ELSE 0)
        + (IF "Right" \in pressed_keys THEN 1 ELSE 0),
      (IF "Up" \in pressed_keys THEN -1 ELSE 0)
        + (IF "Down" \in pressed_keys THEN 1 ELSE 0)>>

\* move_annotation_arrow taking the first element of the selection.
move_annotation_arrow_first(s, pressed_keys) ==
    IF s.selected_annos = <<>> THEN s
    ELSE LET selected_anno == s.selected_annos[1]
             moved == move_annotation(
                          set_selected_annotation(s, selected_anno),
                          selected_anno, arrow_delta(pressed_keys))
         IN  update([moved EXCEPT !.unsaved_changes = TRUE])

\* Canvas.move_annotation_arrow(pressed_keys)
move_annotation_arrow(s, pressed_keys) ==
    IF s.selected_annos = <<>> THEN s
    ELSE LET selected_anno == s.selected_annos[Len(s.selected_annos)]
             moved == move_annotation(
                          set_selected_annotation(s, selected_anno),
                          selected_anno, arrow_delta(pressed_keys))
         IN  update([moved EXCEPT !.unsaved_changes = TRUE])

\* hide_annotations flipping the hidden flag of each selected annotation.
hide_annotations_per_item(s) ==
    update([s EXCEPT !.objs = [a \in DOMAIN s.objs |->
                                  IF a \in Range(s.selected_annos)
                                  THEN [s.objs[a] EXCEPT !.hidden = ~@]
                                  ELSE s.objs[a]]])

\* Canvas.hide_annotations
hide_annotations(s) ==
    LET should_hide ==
            ~\E i \in DOMAIN s.selected_annos : s.objs[s.selected_annos[i]].hidden
    IN  update([s EXCEPT !.objs = [a \in DOMAIN s.objs |->
                                      IF a \in Range(s.selected_annos)
                                      THEN [s.objs[a] EXCEPT !.hidden = should_hide]
                                      ELSE s.objs[a]]])

\* Canvas.rename_annotations; picked is what the label picker returns.
rename_annotations(s, picked) ==
    IF picked = "" THEN s
    ELSE [s EXCEPT !.objs = [a \in DOMAIN s.objs |->
                                IF a \in Range(s.selected_annos)
                                THEN [s.objs[a] EXCEPT !.label_name = picked]
                                ELSE s.objs[a]],
                   !.unsaved_changes = TRUE]

\* Canvas.copy_annotations
copy_annotations(s) ==
    LET all_annotations == Reverse(s.annotations)
        selected == SelectSeq(all_annotations, LAMBDA a : s.objs[a].selected)
        to_copy == IF selected # <<>> THEN selected ELSE all_annotations
    IN  [s EXCEPT !.clipboard = [i \in DOMAIN to_copy |-> s.objs[to_copy[i]]]]

\* paste_annotations extending the store with the pasted list as it is.
paste_annotations_in_clipboard_order(s) ==
    LET n == Len(s.clipboard)
        base == NewId(s) - 1
        pasted_annotations == [i \in 1..n |-> base + i]
        pasted_ids == {base + i : i \in 1..n}
        heap == [a \in DOMAIN s.objs \cup pasted_ids |->
                    IF a \in pasted_ids
                    THEN [s.clipboard[a - base] EXCEPT !.hovered = NONE,
                                                      !.selected = TRUE,
                                                      !.hidden = FALSE]
                    ELSE IF a \in Range(s.annotations)
                    THEN [s.objs[a] EXCEPT !.selected = FALSE]
                    ELSE s.objs[a]]
        pasted == [s EXCEPT !.objs = heap,
                            !.annotations = @ \o pasted_annotations,
                            !.selected_annos = pasted_annotations]
    IN  [set_annotating_state(pasted, "IDLE") EXCEPT !.unsaved_changes = TRUE]

\* paste_annotations handing over the clipboard's own objects, which
\* leaves the clipboard without them.
paste_annotations_clipboard_emptied(s) ==
    LET n == Len(s.clipboard)
        base == NewId(s) - 1
        pasted_annotations == [i \in 1..n |-> base + i]
        pasted_ids == {base + i : i \in 1..n}
        heap == [a \in DOMAIN s.objs \cup pasted_ids |->
                    IF a \in pasted_ids
                    THEN [s.clipboard[a - base] EXCEPT !.hovered = NONE,
                                                      !.selected = TRUE,
                                                      !.hidden = FALSE]
                    ELSE IF a \in Range(s.annotations)
                    THEN [s.objs[a] EXCEPT !.selected = FALSE]
                    ELSE s.objs[a]]
        pasted == [s EXCEPT !.objs = heap,
                            !.annotations = @ \o Reverse(pasted_annotations),
                            !.selected_annos = pasted_annotations,
                            !.clipboard = <<>>]
    IN  [set_annotating_state(pasted, "IDLE") EXCEPT !.unsaved_changes = TRUE]

\* Canvas.paste_annotations
paste_annotations(s) ==
    LET n == Len(s.clipboard)
        base == NewId(s) - 1
        pasted_annotations == [i \in 1..n |-> base + i]
        pasted_ids == {base + i : i \in 1..n}
        heap == [a \in DOMAIN s.objs \cup pasted_ids |->
                    IF a \in pasted_ids
                    THEN [s.clipboard[a - base] EXCEPT !.hovered = NONE,
                                                      !.selected = TRUE,
                                                      !.hidden = FALSE]
                    ELSE IF a \in Range(s.annotations)
                    THEN [s.objs[a] EXCEPT !.selected = FALSE]
                    ELSE s.objs[a]]
        pasted == [s EXCEPT !.objs = heap,
                            !.annotations = @ \o Reverse(pasted_annotations),
                            !.selected_annos = pasted_annotations]
    IN  [set_annotating_state(pasted, "IDLE") EXCEPT !.unsaved_changes = TRUE]

\* delete_annotations removing the last selected annotation only.
delete_annotations_last_only(s) ==
    update([s EXCEPT !.annotations =
                         SelectSeq(@, LAMBDA a :
                             \/ s.selected_annos = <<>>
                             \/ a # s.selected_annos[Len(s.selected_annos)]),
                     !.unsaved_changes = TRUE])

\* Canvas.delete_annotations
delete_annotations(s) ==
    update([s EXCEPT !.annotations =
                         SelectSeq(@, LAMBDA a : ~s.objs[a].selected),
                     !.unsaved_changes = TRUE])

\* Canvas.on_mouse_left_press; ctrl is the Control modifier of the event.
on_mouse_left_press(s, ctrl, picked) ==
    update(
        IF s.annotating_state = "IDLE"
        THEN IF ctrl THEN add_selected_annotation(s, s.hovered_anno)
             ELSE set_selected_annotation(s, s.hovered_anno)
        ELSE IF s.annotating_state = "READY"
        THEN set_annotating_state(s, "DRAWING")
        ELSE set_annotating_state(
                 IF s.quick_create
                 THEN [create_annotation(s, s.previous_label, picked)
                       EXCEPT !.quick_create = FALSE]
                 ELSE create_annotation(s, "", picked),
                 "IDLE"))

\* on_mouse_right_press without the set_annotating_state(IDLE).
on_mouse_right_press_state_kept(s) ==
    update(IF s.hovered_anno # 0
           THEN set_selected_annotation(s, s.hovered_anno)
           ELSE s)

\* Canvas.on_mouse_right_press, the context menu dismissed without a choice.
on_mouse_right_press(s) ==
    LET idle == set_annotating_state(s, "IDLE")
    IN  update(IF idle.hovered_anno # 0
               THEN set_selected_annotation(idle, idle.hovered_anno)
               ELSE idle)

\* Canvas.on_mouse_left_drag(cursor_shift)
on_mouse_left_drag(s, cursor_shift) ==
    IF s.hovered_anno = 0 THEN s
    ELSE update(move_annotation(s, s.hovered_anno, cursor_shift))

\* Canvas.on_mouse_hover
on_mouse_hover(s) == update(s)

\* Canvas._is_cursor_in_bounds
is_cursor_in_bounds(s) ==
    /\ 0 <= s.cursor_position[1] /\ s.cursor_position[1] <= s.pixmap[1]
    /\ 0 <= s.cursor_position[2] /\ s.cursor_position[2] <= s.pixmap[2]

\* Canvas.on_scroll_up and on_scroll_down; level is the zoom level the
\* zoom handler moves to.
on_scroll(s, level) ==
    IF ~is_cursor_in_bounds(s) THEN s
    ELSE update([s EXCEPT !.zoom_level = level])

\* Canvas.reset
reset(s) ==
    update([set_annotating_state(s, "IDLE")
            EXCEPT !.annotations = <<>>, !.pixmap = <<0, 0>>,
                   !.zoom_level = <<1, 1>>])

\* Canvas.load_image: the image read has the size <<ImgW, ImgH>>.
load_image(s, name) ==
    update([reset(s) EXCEPT !.image_name = name, !.pixmap = <<ImgW, ImgH>>])

\* Canvas.load_annotations(annotations): loaded is the list of
\* <<position, label_name>> of the Annotation objects handed in.
load_annotations(s, loaded) ==
    LET base == NewId(s) - 1
        ids == {base + i : i \in DOMAIN loaded}
    IN  update([s EXCEPT !.objs = [a \in DOMAIN s.objs \cup ids |->
                                      IF a \in ids
                                      THEN Annotation(loaded[a - base][1],
                                                      loaded[a - base][2])
                                      ELSE s.objs[a]],
                         !.annotations = [i \in DOMAIN loaded |-> base + i]])

\* AnnotationController.save_annotations(image_name, image_size,
\* annotations): the call, with what it writes of each annotation.
save_annotations(name, image_size, annos) ==
    <<name, image_size,
      [i \in DOMAIN annos |-> <<annos[i].position, annos[i].label_name>>]>>

\* save_progress that leaves unsaved_changes set.
save_progress_flag_kept(s) ==
    IF ~s.unsaved_changes THEN s
    ELSE [s EXCEPT !.saved = Append(@, save_annotations(s.image_name, s.pixmap,
                                  [i \in DOMAIN s.annotations |-> s.objs[s.annotations[i]]]))]

\* Canvas.save_progress, the auto-save timer's slot.
save_progress(s) ==
    IF ~s.unsaved_changes THEN s
    ELSE [s EXCEPT !.unsaved_changes = FALSE,
                   !.saved = Append(@, save_annotations(
                                 s.image_name, s.pixmap,
                                 [i \in DOMAIN s.annotations |->
                                     s.objs[s.annotations[i]]]))]

\* MainWindow._on_image_change
on_image_change(s, name, loaded) == load_annotations(load_image(s, name), loaded)

\* -------------------------------------------------------- state machine
\* References are opaque, so every state is kept with its objects renamed
\* in one canonical way: the store's objects are 1..n in store order, then
\* the selected objects no longer in the store; objects nothing refers to
\* are dropped.
Canon(s) ==
    LET in_store == Range(s.annotations)
        ghosts == SelectSeq(s.selected_annos, LAMBDA a : a \notin in_store)
        extra == IF s.hovered_anno \in ({0} \cup in_store \cup Range(ghosts))
                 THEN <<>> ELSE <<s.hovered_anno>>
        order == s.annotations \o ghosts \o extra
    IN  [s EXCEPT
            !.objs = [i \in DOMAIN order |-> s.objs[order[i]]],
            !.annotations = [i \in DOMAIN s.annotations |-> i],
            !.selected_annos = [i \in DOMAIN s.selected_annos |->
                                   IndexOf(order, s.selected_annos[i])],
            !.hovered_anno = IF s.hovered_anno = 0 THEN 0
                             ELSE IndexOf(order, s.hovered_anno)]

\* The next state is the canvas s.
Commit(s) ==
    LET c == Canon(s)
    IN  /\ annotations' = c.annotations
        /\ objs' = c.objs
        /\ selected_annos' = c.selected_annos
        /\ hovered_anno' = c.hovered_anno
        /\ clipboard' = c.clipboard
        /\ annotating_state' = c.annotating_state
        /\ anno_first_corner' = c.anno_first_corner
        /\ quick_create' = c.quick_create
        /\ previous_label' = c.previous_label
        /\ unsaved_changes' = c.unsaved_changes
        /\ image_name' = c.image_name
        /\ pixmap' = c.pixmap
        /\ cursor_position' = c.cursor_position
        /\ left_clicked' = c.left_clicked
        /\ canvas_size' = c.canvas_size
        /\ zoom_level' = c.zoom_level
        /\ saved' = c.saved
        /\ raised' = c.raised
        /\ steps' = steps + 1

\* AnnotationController.get_annotations(image_name): the annotations the
\* annotation file holds for each image, as <<position, label_name>>.
get_annotations(name) ==
    IF name = "a.png"
    THEN << <<<<0, 0, 5, 5>>, "cat">> >>
    ELSE << <<<<0, 0, 10, 10>>, "cat">>, <<<<5, 5, 15, 15>>, "dog">> >>

\* An event of the main window's event loop leads to the canvas s.
Step(s) == steps < MaxSteps /\ Commit(s)

\* The state is the canvas s, before any event.
Start(s) ==
    LET c == Canon(s)
    IN  /\ annotations = c.annotations
        /\ objs = c.objs
        /\ selected_annos = c.selected_annos
        /\ hovered_anno = c.hovered_anno
        /\ clipboard = c.clipboard
        /\ annotating_state = c.annotating_state
        /\ anno_first_corner = c.anno_first_corner
        /\ quick_create = c.quick_create
        /\ previous_label = c.previous_label
        /\ unsaved_changes = c.unsaved_changes
        /\ image_name = c.image_name
        /\ pixmap = c.pixmap
        /\ cursor_position = c.cursor_position
        /\ left_clicked = c.left_clicked
        /\ canvas_size = c.canvas_size
        /\ zoom_level = c.zoom_level
        /\ saved = c.saved
        /\ raised = c.raised
        /\ steps = 0

\* The canvas as Canvas.__init__ leaves it.
NewCanvas ==
    [annotations |-> <<>>, objs |-> <<>>, selected_annos |-> <<>>,
     hovered_anno |-> 0, clipboard |-> <<>>, annotating_state |-> "IDLE",
     anno_first_corner |-> <<>>, quick_create |-> FALSE,
     previous_label |-> "", unsaved_changes |-> FALSE, image_name |-> "",
     pixmap |-> <<0, 0>>, cursor_position |-> <<0, 0>>,
     left_clicked |-> FALSE, canvas_size |-> <<CanvasW, CanvasH>>,
     zoom_level |-> <<1, 1>>, saved |-> <<>>, raised |-> FALSE]

Init == Start(NewCanvas)

\* The "start annotating" command.
StartAnnotating ==
    Step(set_annotating_state(Self, "READY"))

\* The "quick create" command: start annotating, reusing the previous label.
StartQuickCreate ==
    Step(set_annotating_state([Self EXCEPT !.quick_create = TRUE], "READY"))

\* A press of the left button.
MouseLeftPress ==
    \E ctrl \in BOOLEAN, picked \in Picks :
        Step(on_mouse_left_press([Self EXCEPT !.left_clicked = TRUE],
                                      ctrl, picked))

\* The release of the left button.
MouseLeftRelease ==
    /\ left_clicked
    /\ Step([Self EXCEPT !.left_clicked = FALSE])

\* A press of the right button.
MouseRightPress ==
    Step(on_mouse_right_press(Self))

\* The pointer moves to position with no button held.
MouseHoverTo(position) ==
    /\ ~left_clicked
    /\ position # cursor_position
    /\ Step(on_mouse_hover([Self EXCEPT !.cursor_position = position]))

MouseHover == \E position \in CursorPoints : MouseHoverTo(position)

\* The pointer moves to position with the left button held.
MouseLeftDragTo(position) ==
    /\ left_clicked
    /\ position # cursor_position
    /\ Step(on_mouse_left_drag(
           [Self EXCEPT !.cursor_position = position],
           <<position[1] - cursor_position[1],
             position[2] - cursor_position[2]>>))

MouseLeftDrag == \E position \in CursorPoints : MouseLeftDragTo(position)

\* An arrow key event with pressed_keys held.
ArrowKeys ==
    \E pressed_keys \in ArrowKeySets :
        Step(move_annotation_arrow(Self, pressed_keys))

HideAnnotations == Step(hide_annotations(Self))

RenameAnnotations ==
    \E picked \in Picks : Step(rename_annotations(Self, picked))

CopyAnnotations == Step(copy_annotations(Self))

PasteAnnotations == Step(paste_annotations(Self))

DeleteAnnotations == Step(delete_annotations(Self))

\* MainWindow.open_dir on a directory without images.
Reset == Step(reset(Self))

\* MainWindow._on_image_change: next_image, prev_image, open_dir.
ImageChange ==
    \E name \in ImageNames :
        Step(on_image_change(Self, name, get_annotations(name)))

\* The auto-save timer fires.
SaveProgress == Step(save_progress(Self))

Next ==
    \/ StartAnnotating
    \/ StartQuickCreate
    \/ MouseLeftPress
    \/ MouseLeftRelease
    \/ MouseRightPress
    \/ MouseHover
    \/ MouseLeftDrag
    \/ ArrowKeys
    \/ HideAnnotations
    \/ RenameAnnotations
    \/ CopyAnnotations
    \/ PasteAnnotations
    \/ DeleteAnnotations
    \/ Reset
    \/ ImageChange
    \/ SaveProgress

Spec == Init /\ [][Next]_vars

\* --------------------------------------------------------------- MoveSpec
\* move_annotation as a function of the annotation and the delta: one
\* annotation with any rectangle and any hover region get_hovered can
\* return (or NONE, for an arrow nudge of an annotation not hovered), and
\* move_annotation applied to it again and again.
HoverTypes ==
    {t + b + l + r : t \in {0, TOP}, b \in {0, BOTTOM},
                     l \in {0, LEFT}, r \in {0, RIGHT}} \cup {FULL}

MoveRectangles ==
    {<<x_min, y_min, x_max, y_max>> :
        x_min \in MoveXs, y_min \in MoveYs, x_max \in MoveXs, y_max \in MoveYs}

\* The canvas showing one annotation on an image of the given size.
OneAnnotation(size, position, hover_type) ==
    [NewCanvas EXCEPT
        !.image_name = "a.png", !.pixmap = size, !.annotations = <<1>>,
        !.objs = <<[Annotation(position, "cat") EXCEPT !.hovered = hover_type]>>]

\* The 800x600 image with the rectangle (10, 10, 50, 50) held by its
\* bottom-right handle.
Scenario800x600 == OneAnnotation(<<800, 600>>, <<10, 10, 50, 50>>, BOTTOM_RIGHT)

MoveInit ==
    \/ \E position \in MoveRectangles, hover_type \in HoverTypes :
           /\ position[1] <= position[3]
           /\ position[2] <= position[4]
           /\ Start(OneAnnotation(<<ImgW, ImgH>>, position, hover_type))
    \/ Start(Scenario800x600)

\* move_annotation(annotation, delta) is called.
MoveBy(delta) ==
    /\ steps < MaxMoveSteps
    /\ Commit(move_annotation(Self, 1, delta))

MoveAnnotation == \E delta \in MoveDeltas : MoveBy(delta)

MoveSpec == MoveInit /\ [][MoveAnnotation]_vars

\* ------------------------------------------------------------ PointerSpec
\* The pointer at work on a loaded image: drawing, selecting and dragging,
\* with the pointer at more positions than Spec can afford.
PointerInit ==
    \E name \in ImageNames, position \in PointerPoints :
        Start(on_mouse_hover(
            [on_image_change(NewCanvas, name, get_annotations(name))
             EXCEPT !.cursor_position = position]))

PointerHover == \E position \in PointerPoints : MouseHoverTo(position)

PointerLeftDrag == \E position \in PointerPoints : MouseLeftDragTo(position)

PointerNext ==
    \/ StartAnnotating
    \/ StartQuickCreate
    \/ MouseLeftPress
    \/ MouseLeftRelease
    \/ PointerHover
    \/ PointerLeftDrag

PointerSpec == PointerInit /\ [][PointerNext]_vars

\* --------------------------------------------------------------- HideSpec
\* hide_annotations on the two annotations of b.png, from every selection
\* and every combination of hidden flags the selection commands can leave.
Selections == {<<>>, <<1>>, <<2>>, <<1, 2>>, <<2, 1>>}

\* The canvas showing b.png with the given hidden flags and selection.
TwoAnnotations(hidden, selected, position) ==
    LET loaded == on_image_change(NewCanvas, "b.png", get_annotations("b.png"))
    IN  update([loaded EXCEPT
            !.cursor_position = position,
            !.selected_annos = selected,
            !.objs = [a \in DOMAIN loaded.objs |->
                         [loaded.objs[a] EXCEPT
                             !.hidden = hidden[a],
                             !.selected = a \in Range(selected)]]])

HideInit ==
    \E hidden \in [1..2 -> BOOLEAN], selected \in Selections,
       position \in CursorPoints :
        Start(TwoAnnotations(hidden, selected, position))

HideSpec == HideInit /\ [][HideAnnotations]_vars

\* -------------------------------------------------------------- HoverSpec
\* The pointer over one annotation: every rectangle of MoveRectangles on
\* the image, the pointer at every point of HoverPoints.
HoverCoords == {-5, -4, 0, 4, 5, 6, 10, 19, 20}

HoverPoints == {<<x, y>> : x \in HoverCoords, y \in HoverCoords}

HoverInit ==
    \E position \in MoveRectangles, point \in HoverPoints :
        /\ position[1] <= position[3]
        /\ position[2] <= position[4]
        /\ Start(on_mouse_hover(
               [OneAnnotation(<<ImgW, ImgH>>, position, NONE)
                EXCEPT !.cursor_position = point]))

\* The pointer moves to point with no button held.
HoverTo(point) ==
    /\ steps < MaxHoverSteps
    /\ point # cursor_position
    /\ Commit(on_mouse_hover([Self EXCEPT !.cursor_position = point]))

HoverMove == \E point \in HoverPoints : HoverTo(point)

HoverSpec == HoverInit /\ [][HoverMove]_vars

\* -------------------------------------------------------------- ScaleSpec
\* The view scale: images of several sizes on a canvas that is resized and
\* zoomed.
ImageSizes == {<<ImgW, ImgH>>, <<800, 600>>, <<1600, 1000>>, <<600, 800>>}

\* Sizes the canvas widget is given, down to no width or no height.
CanvasSizes ==
    {<<CanvasW, CanvasH>>, <<400, 300>>, <<500, 800>>,
     <<800, 0>>, <<0, 500>>, <<0, 0>>}

\* Zoom levels of the zoom handler, as fractions.
ZoomLevels == {<<1, 1>>, <<2, 1>>, <<1, 2>>, <<5, 4>>}

ScaleInit ==
    \/ Start(NewCanvas)
    \/ \E size \in ImageSizes :
           Start(update(OneAnnotation(size, <<0, 0, 5, 5>>, NONE)))

\* The canvas widget is resized.
CanvasResize ==
    \E size \in CanvasSizes :
        /\ size # canvas_size
        /\ Step([Self EXCEPT !.canvas_size = size])

\* The wheel is turned over the canvas.
Scroll ==
    \E level \in ZoomLevels :
        /\ level # zoom_level
        /\ canvas_size[1] > 0
        /\ canvas_size[2] > 0
        /\ Step(on_scroll(Self, level))

\* The pointer moves over the canvas.
ScaleHover ==
    /\ canvas_size[1] > 0
    /\ canvas_size[2] > 0
    /\ MouseHover

ScaleNext ==
    \/ CanvasResize
    \/ Scroll
    \/ ScaleHover
    \/ HideAnnotations

ScaleSpec == ScaleInit /\ [][ScaleNext]_vars

\* ---------------------------------------------------------------- HitSpec
\* The hover recomputation on the two annotations of b.png, each hidden or
\* not: every handler here ends in update(), but for the release, which
\* changes nothing the recomputation reads.
HitInit ==
    \E hidden \in [1..2 -> BOOLEAN], position \in CursorPoints :
        Start(TwoAnnotations(hidden, <<>>, position))

HitNext ==
    \/ MouseHover
    \/ HideAnnotations
    \/ StartAnnotating
    \/ MouseLeftPress
    \/ MouseLeftRelease
    \/ MouseRightPress

HitSpec == HitInit /\ [][HitNext]_vars

\* ------------------------------------------------------------- ResizeSpec
\* A drag of an annotation held where the pointer was pressed: rectangles
\* down to thin ones, the hover region the one get_hovered gives there.
ResizeRectangles ==
    {<<x_min, y_min, x_max, y_max>> :
        x_min \in MoveYs, y_min \in MoveYs, x_max \in MoveYs, y_max \in MoveYs}

ResizePoints == {<<x, y>> : x \in {0, 5, 12}, y \in {0, 5, 12}}

ResizeInit ==
    \E position \in ResizeRectangles, point \in ResizePoints :
        /\ position[1] <= position[3]
        /\ position[2] <= position[4]
        /\ Start(on_mouse_left_press(
               update([OneAnnotation(<<ImgW, ImgH>>, position, NONE)
                       EXCEPT !.cursor_position = point,
                              !.left_clicked = TRUE]),
               FALSE, ""))

\* The pointer moves by delta with the left button held.
ResizeDragBy(delta) ==
    /\ steps < MaxMoveSteps
    /\ Commit(on_mouse_left_drag(
           [Self EXCEPT !.cursor_position =
                            <<cursor_position[1] + delta[1],
                              cursor_position[2] + delta[2]>>],
           delta))

ResizeDrag == \E delta \in MoveDeltas : ResizeDragBy(delta)

ResizeSpec == ResizeInit /\ [][ResizeDrag]_vars

\* ---------------------------------------------------------------- claims
\* The store by value: the fields of its annotations, in store order.
Store == [i \in DOMAIN annotations |-> objs[annotations[i]]]

\* position, label_name and hidden of every annotation of the store
Contents ==
    [i \in DOMAIN annotations |->
        <<Store[i].position, Store[i].label_name, Store[i].hidden>>]

\* C1: every member of selected_annos is a member of the store.
C1_SelectionInStore ==
    \A i \in DOMAIN selected_annos : selected_annos[i] \in Range(annotations)

\* The paste is the one that follows a copy made with nothing selected.
C2_Case ==
    /\ PasteAnnotations
    /\ \A i \in DOMAIN annotations : ~Store[i].selected
    /\ clipboard = copy_annotations(Self).clipboard

\* What C2 says of the store after the paste, but for the hover regions.
C2_Pasted ==
    LET n == Len(annotations)
    IN  /\ Len(annotations') = 2 * n
        /\ \A i \in 1..n :
               /\ Contents'[i] = Contents[i]
               /\ ~Store'[i].selected
               /\ Store'[n + i].position = Store[i].position
               /\ Store'[n + i].label_name = Store[i].label_name
               /\ Store'[n + i].selected
               /\ ~Store'[n + i].hidden
        /\ Range(selected_annos') = {annotations'[n + i] : i \in 1..n}

\* C2 as claimed: copy then paste with none selected doubles the store, the
\* originals first and their copies after them in the same order, and the
\* copies are the selection, visible and with hover NONE.
C2_Original ==
    [][C2_Case =>
          /\ C2_Pasted
          /\ \A i \in 1..Len(annotations) :
                 Store'[Len(annotations) + i].hovered = NONE]_vars

\* C2 as amended: the same, where a copy's hover is NONE unless it is the
\* annotation the hover recomputation that ends the paste finds under the
\* cursor.
C2_CopyPaste ==
    [][C2_Case =>
          /\ C2_Pasted
          /\ \A i \in 1..Len(annotations) :
                 \/ Store'[Len(annotations) + i].hovered = NONE
                 \/ hovered_anno' = annotations'[Len(annotations) + i]]_vars

\* Two annotations were copied and pasted: the store holds them and then
\* their selected copies, the lower one under the cursor.
C2_Witness ==
    /\ Len(annotations) = 4
    /\ Len(clipboard) = 2
    /\ selected_annos = <<4, 3>>
    /\ Store[3].position = Store[1].position
    /\ Store[4].position = Store[2].position
    /\ hovered_anno = 3

\* C3: a paste with an empty clipboard changes neither the store, the
\* selected flags, the selection list, the annotating state, the first
\* corner nor the dirty flag.
C3_EmptyPasteNoOp ==
    [][PasteAnnotations /\ clipboard = <<>> =>
          /\ Contents' = Contents
          /\ \A i \in DOMAIN annotations : Store'[i].selected = Store[i].selected
          /\ selected_annos' = selected_annos
          /\ annotating_state' = annotating_state
          /\ anno_first_corner' = anno_first_corner
          /\ unsaved_changes' = unsaved_changes]_vars

\* A press in DRAWING or a rename during which the label picker is opened
\* and dismissed.
PromptDismissed ==
    \/ /\ annotating_state = "DRAWING"
       /\ ~quick_create \/ previous_label = ""
       /\ \E ctrl \in BOOLEAN :
              Step(on_mouse_left_press([Self EXCEPT !.left_clicked = TRUE],
                                       ctrl, ""))
    \/ Step(rename_annotations(Self, ""))

\* C4: a dismissed label picker leaves the store, the labels, the selection,
\* the dirty flag, the previous label and the quick-create flag as they were.
C4_DismissedPromptNoChange ==
    [][PromptDismissed =>
          /\ Contents' = Contents
          /\ \A i \in DOMAIN annotations : Store'[i].selected = Store[i].selected
          /\ selected_annos' = selected_annos
          /\ unsaved_changes' = unsaved_changes
          /\ previous_label' = previous_label
          /\ quick_create' = quick_create]_vars

\* C5: delete, hide and rename on an empty selection change neither the
\* store, the labels, the hidden flags, the selection nor the dirty flag.
C5_EmptySelectionNoOp ==
    [][/\ selected_annos = <<>>
       /\ DeleteAnnotations \/ HideAnnotations \/ RenameAnnotations
       => /\ Contents' = Contents
          /\ selected_annos' = selected_annos
          /\ unsaved_changes' = unsaved_changes]_vars

\* C6: after every move_annotation call, whatever the rectangle, the hover
\* region and the deltas so far, the stored rectangle has left <= right and
\* top <= bottom.
C6_EdgesOrdered ==
    \A i \in DOMAIN annotations :
        /\ Store[i].position[1] <= Store[i].position[3]
        /\ Store[i].position[2] <= Store[i].position[4]

\* A left handle has been carried past the right edge: the rectangle
\* (0, 0, 5, 10) held by LEFT and moved by (7, 0) is (5, 0, 7, 10), held by
\* RIGHT.
C6_Witness ==
    /\ steps = 1
    /\ Store[1].position = <<5, 0, 7, 10>>
    /\ Store[1].hovered = RIGHT

InBounds(position) ==
    /\ 0 <= position[1] /\ position[1] <= pixmap[1]
    /\ 0 <= position[3] /\ position[3] <= pixmap[1]
    /\ 0 <= position[2] /\ position[2] <= pixmap[2]
    /\ 0 <= position[4] /\ position[4] <= pixmap[2]

\* What C7 says of one axis: lo and hi are the edges before the call, lo2 and
\* hi2 after it, border the image's size along the axis.
C7_Axis(lo, hi, lo2, hi2, delta, border, body) ==
    LET lo_stays_in == 0 <= lo + delta /\ lo + delta <= border
        hi_stays_in == 0 <= hi + delta /\ hi + delta <= border
    IN  /\ ~lo_stays_in => lo \in {lo2, hi2}
        /\ ~hi_stays_in => hi \in {lo2, hi2}
        /\ body => /\ hi2 - lo2 = hi - lo
                   /\ IF lo_stays_in /\ hi_stays_in
                      THEN lo2 = lo + delta
                      ELSE lo2 = lo

\* C7: move_annotation on a rectangle within the image leaves the four
\* coordinates within the image; an edge whose shifted value would leave the
\* image is still an edge of the rectangle afterwards; a FULL-body drag
\* shifts both edges of an axis when both stay in the image and neither
\* otherwise, so that it preserves width and height.
C7_StaysInBounds ==
    [][\A delta \in MoveDeltas :
          MoveBy(delta) /\ InBounds(Store[1].position) =>
              LET before == Store[1].position
                  after == Store'[1].position
                  body == Store[1].hovered = FULL
              IN  /\ InBounds(after)
                  /\ C7_Axis(before[1], before[3], after[1], after[3],
                             delta[1], pixmap[1], body)
                  /\ C7_Axis(before[2], before[4], after[2], after[4],
                             delta[2], pixmap[2], body)]_vars

\* A body drag by (7, 7) of the rectangle (0, 10, 5, ImgH): the x edges both
\* shift, the y edges both stay because the bottom edge would leave the image.
C7_Witness ==
    /\ steps = 1
    /\ Store[1].position = <<7, 10, 12, ImgH>>
    /\ Store[1].hovered = FULL

\* The rectangle (10, 10, 50, 50) on the 800x600 image.
C8_Start ==
    /\ pixmap = <<800, 600>>
    /\ Store[1].position = <<10, 10, 50, 50>>

\* C8 as stated: held by BOTTOM_RIGHT and moved by (-60, -60), the rectangle
\* becomes (10, 10, 10, 10) held by TOP_LEFT.
C8_Original ==
    [][C8_Start /\ Store[1].hovered = BOTTOM_RIGHT /\ MoveBy(<<-60, -60>>) =>
          /\ Store'[1].position = <<10, 10, 10, 10>>
          /\ Store'[1].hovered = TOP_LEFT]_vars

\* C8, amended: the right and bottom edges shifted by -60 would leave the
\* image, so the move by (-60, -60) leaves the rectangle (10, 10, 50, 50) and
\* the hover region BOTTOM_RIGHT; a further move by (5, 5) moves the right and
\* bottom edges only, to (10, 10, 55, 55).
C8_BlockedAtBorder ==
    [][/\ C8_Start /\ Store[1].hovered = BOTTOM_RIGHT /\ MoveBy(<<-60, -60>>) =>
          /\ Store'[1].position = <<10, 10, 50, 50>>
          /\ Store'[1].hovered = BOTTOM_RIGHT
       /\ C8_Start /\ Store[1].hovered = BOTTOM_RIGHT /\ MoveBy(<<5, 5>>) =>
          /\ Store'[1].position = <<10, 10, 55, 55>>
          /\ Store'[1].hovered = BOTTOM_RIGHT]_vars

\* The move by (-60, -60) and the further move by (5, 5) have happened.
C8_Witness ==
    /\ steps = 2
    /\ pixmap = <<800, 600>>
    /\ Store[1].position = <<10, 10, 55, 55>>
    /\ Store[1].hovered = BOTTOM_RIGHT
\* The label a press in Drawing resolves to: the previous label in quick
\* create, what the picker returns otherwise ("" if it is dismissed).
C10_Label(picked) ==
    IF quick_create /\ previous_label # "" THEN previous_label ELSE picked

\* The press in Drawing that resolves to a label.
C10_Press(ctrl, picked) ==
    /\ annotating_state = "DRAWING"
    /\ C10_Label(picked) # ""
    /\ Step(on_mouse_left_press([Self EXCEPT !.left_clicked = TRUE],
                                 ctrl, picked))

\* The rectangle with corners first and second, each coordinate clamped to
\* the image of the given size.
C10_Rectangle(first, second, size) ==
    LET clamp(v, border) == IF v < 0 THEN 0 ELSE IF v > border THEN border ELSE v
        x1 == clamp(first[1], size[1])
        y1 == clamp(first[2], size[2])
        x2 == clamp(second[1], size[1])
        y2 == clamp(second[2], size[2])
    IN  <<IF x1 < x2 THEN x1 ELSE x2, IF y1 < y2 THEN y1 ELSE y2,
          IF x1 < x2 THEN x2 ELSE x1, IF y1 < y2 THEN y2 ELSE y1>>

\* On an 800x600 image, the press in Drawing with the first corner
\* (100, 100) and the cursor at (300, 200) stores (100, 100, 300, 200).
C10_Example ==
    LET drawing == [Self EXCEPT !.pixmap = <<800, 600>>,
                                !.annotating_state = "DRAWING",
                                !.anno_first_corner = <<100, 100>>,
                                !.cursor_position = <<300, 200>>]
        pressed == on_mouse_left_press(drawing, FALSE, "cat")
    IN  pressed.objs[pressed.annotations[Len(pressed.annotations)]].position
            = <<100, 100, 300, 200>>

\* C10: a primary press in Drawing that resolves to a label appends exactly
\* one annotation at the end of the store, with the rectangle
\* (min, min, max, max) of the first corner and the cursor position, each
\* coordinate clamped to the image; it is the only selected annotation, its
\* label is one of the label set, the dirty flag is set and the state is
\* Idle. On an 800x600 image the first corner (100, 100) and the cursor
\* (300, 200) store (100, 100, 300, 200).
C10_CreateOnPress ==
    [][/\ \A ctrl \in BOOLEAN, picked \in Picks :
             C10_Press(ctrl, picked) =>
                 LET n == Len(annotations)
                 IN  /\ Len(annotations') = n + 1
                     /\ \A i \in 1..n :
                            /\ Contents'[i] = Contents[i]
                            /\ ~Store'[i].selected
                     /\ Store'[n + 1].position =
                            C10_Rectangle(anno_first_corner, cursor_position,
                                          pixmap)
                     /\ Store'[n + 1].label_name = C10_Label(picked)
                     /\ Store'[n + 1].label_name \in LabelSet
                     /\ Store'[n + 1].selected
                     /\ selected_annos' = <<annotations'[n + 1]>>
                     /\ unsaved_changes'
                     /\ annotating_state' = "IDLE"
                     /\ C10_Example]_vars

\* A rectangle drawn from the first corner (10, 5) to the cursor (-5, 20),
\* outside the image on two sides: it is stored as (0, 5, 10, ImgH), selected,
\* with the canvas Idle and dirty.
C10_Witness ==
    /\ annotations # <<>>
    /\ Store[Len(annotations)].position = <<0, 5, 10, ImgH>>
    /\ selected_annos = <<annotations[Len(annotations)]>>
    /\ Store[Len(annotations)].label_name = "dog"
    /\ annotating_state = "IDLE"
    /\ unsaved_changes
Corners == {TOP_LEFT, TOP_RIGHT, BOTTOM_LEFT, BOTTOM_RIGHT}

Sign(x) == IF x < 0 THEN -1 ELSE IF x > 0 THEN 1 ELSE 0

\* The shift of the pointer when it moves to position.
ShiftTo(position) ==
    <<position[1] - cursor_position[1], position[2] - cursor_position[2]>>

\* The handle of one axis is carried past the opposite edge: the held edge
\* (lo if lo_held, else hi) shifted by delta stays in the image and ends up on
\* the other side of the edge not held.
C9_Inverted(lo, hi, delta, border, lo_held) ==
    LET moved == IF lo_held THEN lo + delta ELSE hi + delta
    IN  /\ 0 <= moved /\ moved <= border
        /\ IF lo_held THEN moved > hi ELSE moved < lo

C9_InvertedX(position) ==
    LET held == objs[hovered_anno]
    IN  C9_Inverted(held.position[1], held.position[3], ShiftTo(position)[1],
                    pixmap[1], HasBit(held.hovered, LEFT))

C9_InvertedY(position) ==
    LET held == objs[hovered_anno]
    IN  C9_Inverted(held.position[2], held.position[4], ShiftTo(position)[2],
                    pixmap[2], HasBit(held.hovered, TOP))

\* The drag to position carries the corner handle held past an opposite edge.
C9_Drag(position) ==
    /\ hovered_anno # 0
    /\ objs[hovered_anno].hovered \in Corners
    /\ C9_InvertedX(position) \/ C9_InvertedY(position)
    /\ MouseLeftDragTo(position)

\* The handle bits of the inverted axes are on the opposite side in after.
C9_Swapped(before, after, inv_x, inv_y) ==
    /\ inv_x => /\ HasBit(after, LEFT) # HasBit(before, LEFT)
                /\ HasBit(after, RIGHT) # HasBit(before, RIGHT)
    /\ inv_y => /\ HasBit(after, TOP) # HasBit(before, TOP)
                /\ HasBit(after, BOTTOM) # HasBit(before, BOTTOM)

\* after has the handle bit opposite to before's on the inverted axes.
C9_HasSwappedBit(before, after, inv_x, inv_y) ==
    /\ inv_x => HasBit(after, IF HasBit(before, LEFT) THEN RIGHT ELSE LEFT)
    /\ inv_y => HasBit(after, IF HasBit(before, TOP) THEN BOTTOM ELSE TOP)

\* Of the edges <<lo, hi>> of one axis, one is still an edge in <<lo2, hi2>>
\* and the other is not.
C9_OneEdgeChanged(lo, hi, lo2, hi2) ==
    /\ <<lo2, hi2>> # <<lo, hi>>
    /\ lo \in {lo2, hi2} \/ hi \in {lo2, hi2}

\* The canvas after the drag event that follows the step, to the position
\* next.
C9_NextDrag(next) ==
    on_mouse_left_drag(
        [Self' EXCEPT !.cursor_position = next],
        <<next[1] - cursor_position'[1], next[2] - cursor_position'[2]>>)

\* The drag to next goes the way the drag to position went.
C9_SameDirection(position, next) ==
    /\ Sign(next[1] - position[1]) = Sign(ShiftTo(position)[1])
    /\ Sign(next[2] - position[2]) = Sign(ShiftTo(position)[2])

\* C9 as stated: when a drag carries a corner handle past the opposite edge,
\* the hover region stored on the annotation after the event has the handle
\* bit of each inverted axis swapped, and the next drag event in the same
\* direction changes exactly one edge on each axis along which it moves.
C9_Original ==
    [][\A position \in PointerPoints :
          C9_Drag(position) =>
              LET a == hovered_anno
                  before == objs[a].position
              IN  /\ C9_Swapped(objs[a].hovered, objs'[a].hovered,
                                C9_InvertedX(position), C9_InvertedY(position))
                  /\ \A next \in PointerPoints :
                         C9_SameDirection(position, next) =>
                             LET now == objs'[a].position
                                 then == C9_NextDrag(next).objs[a].position
                             IN  /\ next[1] # position[1] =>
                                        C9_OneEdgeChanged(now[1], now[3],
                                                          then[1], then[3])
                                 /\ next[2] # position[2] =>
                                        C9_OneEdgeChanged(now[2], now[4],
                                                          then[2], then[4])]_vars
\* The edges <<lo, hi>> of one axis have not both changed.
C9_AtMostOneEdgeChanged(lo, hi, lo2, hi2) ==
    lo \in {lo2, hi2} \/ hi \in {lo2, hi2}

\* Every edge of the axis whose handle bit is in hover_type stays in the
\* image when it is shifted by delta.
C9_HeldEdgesCanShift(lo, hi, delta, border, hover_type, lo_bit, hi_bit) ==
    /\ HasBit(hover_type, lo_bit) \/ HasBit(hover_type, hi_bit)
    /\ HasBit(hover_type, lo_bit) => 0 <= lo + delta /\ lo + delta <= border
    /\ HasBit(hover_type, hi_bit) => 0 <= hi + delta /\ hi + delta <= border

\* C9, amended: when a drag carries a corner handle past the opposite edge,
\* move_annotation stores the hover region with the handle bit of each
\* inverted axis swapped. update() then recomputes the hover from the pointer:
\* if the annotation is still the hovered one, its hover region has the
\* swapped bit on each inverted axis, and the next drag event in the same
\* direction changes at most one edge per axis, and exactly one on an axis
\* along which it moves if the edges under the handle stay in the image; if
\* the annotation is no longer the hovered one, the next drag leaves it alone.
C9_FlipThenResize ==
    [][\A position \in PointerPoints :
          C9_Drag(position) =>
              LET a == hovered_anno
                  inv_x == C9_InvertedX(position)
                  inv_y == C9_InvertedY(position)
                  moved == move_annotation(
                               [Self EXCEPT !.cursor_position = position],
                               a, ShiftTo(position))
                  now == objs'[a].position
                  hover_type == objs'[a].hovered
              IN  /\ C9_Swapped(objs[a].hovered, moved.objs[a].hovered,
                                inv_x, inv_y)
                  /\ moved.objs[a].position = now
                  /\ hovered_anno' = a =>
                         C9_HasSwappedBit(objs[a].hovered, hover_type,
                                          inv_x, inv_y)
                  /\ \A next \in PointerPoints :
                         C9_SameDirection(position, next) =>
                             LET then == C9_NextDrag(next).objs[a].position
                                 delta_x == next[1] - position[1]
                                 delta_y == next[2] - position[2]
                             IN  IF hovered_anno' # a THEN then = now
                                 ELSE
                                 /\ C9_AtMostOneEdgeChanged(now[1], now[3],
                                                            then[1], then[3])
                                 /\ C9_AtMostOneEdgeChanged(now[2], now[4],
                                                            then[2], then[4])
                                 /\ delta_x # 0
                                    /\ C9_HeldEdgesCanShift(
                                           now[1], now[3], delta_x, pixmap[1],
                                           hover_type, LEFT, RIGHT) =>
                                        C9_OneEdgeChanged(now[1], now[3],
                                                          then[1], then[3])
                                 /\ delta_y # 0
                                    /\ C9_HeldEdgesCanShift(
                                           now[2], now[4], delta_y, pixmap[2],
                                           hover_type, TOP, BOTTOM) =>
                                        C9_OneEdgeChanged(now[2], now[4],
                                                          then[2], then[4])]_vars
\* The top-left handle of (0, 0, 5, 5) has been dragged from (0, 0) past the
\* bottom-right corner to (10, 10), and then on to (15, 15): the rectangle is
\* (5, 5, 15, 15), held by its bottom-right handle.
C9_Witness ==
    /\ steps = 3
    /\ left_clicked
    /\ image_name = "a.png"
    /\ cursor_position = <<15, 15>>
    /\ hovered_anno = 1
    /\ Store[1].position = <<5, 5, 15, 15>>
    /\ Store[1].hovered = BOTTOM_RIGHT

\* The primary press of the event loop, with the modifier and the answer of
\* the label picker.
C11_Press(ctrl, picked) ==
    Step(on_mouse_left_press([Self EXCEPT !.left_clicked = TRUE], ctrl, picked))

\* C11: a primary press in Armed always moves to Drawing and records the
\* cursor position at that press as the first corner, without changing the
\* store; a primary press in Drawing always ends in Idle with the first
\* corner discarded, and when the label picker is dismissed the store has
\* the same annotations as before the press.
C11_PrimaryPress ==
    [][\A ctrl \in BOOLEAN, picked \in Picks :
          C11_Press(ctrl, picked) =>
              /\ annotating_state = "READY" =>
                     /\ annotating_state' = "DRAWING"
                     /\ anno_first_corner' = cursor_position
                     /\ cursor_position' = cursor_position
                     /\ Contents' = Contents
              /\ annotating_state = "DRAWING" =>
                     /\ annotating_state' = "IDLE"
                     /\ anno_first_corner' = <<>>
                     /\ C10_Label(picked) = "" => Contents' = Contents]_vars

\* A rectangle has been started at (5, 5) and then the picker dismissed:
\* the press in Armed and the press in Drawing have both happened.
C11_Witness ==
    /\ steps = 5
    /\ ~unsaved_changes
    /\ image_name = "a.png"
    /\ annotating_state = "IDLE"
    /\ anno_first_corner = <<>>
    /\ cursor_position = <<5, 5>>
    /\ left_clicked
    /\ ~quick_create
    /\ selected_annos = <<>>
    /\ Len(annotations) = 1

\* C12: a secondary press in any annotating state (Idle, Armed or Drawing)
\* leaves the state Idle with no pending first corner, and adds no
\* annotation to the store.
C12_SecondaryPress ==
    [][MouseRightPress =>
          /\ annotating_state' = "IDLE"
          /\ anno_first_corner' = <<>>
          /\ Contents' = Contents]_vars

\* A quick create was cancelled by a secondary press over the annotation of
\* a.png after a primary press: the flag of the quick create is still set
\* and the annotation under the cursor is selected.
C12_Witness ==
    /\ steps = 4
    /\ image_name = "a.png"
    /\ annotating_state = "IDLE"
    /\ anno_first_corner = <<>>
    /\ quick_create
    /\ left_clicked
    /\ selected_annos = <<1>>
    /\ ~unsaved_changes
    /\ Len(annotations) = 1

\* C13: hide_annotations is a group toggle over the selection: if no
\* selected annotation is hidden all selected annotations become hidden, if
\* at least one is hidden all become visible, and the hidden flags of the
\* unselected annotations are unchanged; from a selection with none hidden,
\* a second call restores every selected annotation to visible.
C13_GroupToggle ==
    [][HideAnnotations =>
          LET chosen == Range(selected_annos)
              none_hidden == \A a \in chosen : ~objs[a].hidden
              twice == hide_annotations(Self)'
          IN  /\ \A a \in chosen : objs'[a].hidden = none_hidden
              /\ \A a \in DOMAIN objs \ chosen : objs'[a].hidden = objs[a].hidden
              /\ annotations' = annotations
              /\ selected_annos' = selected_annos
              /\ none_hidden => \A a \in chosen : ~twice.objs[a].hidden]_vars

\* Both annotations of b.png are selected, at least one of them was
\* hidden, and the toggle has made both visible.
C13_Witness ==
    /\ steps = 1
    /\ selected_annos = <<1, 2>>
    /\ ~Store[1].hidden
    /\ ~Store[2].hidden

\* The point is outside the rectangle expanded by w on all sides.
C14_Outside(R, P, w) ==
    \/ P[1] < R[1] - w
    \/ P[1] > R[3] + w
    \/ P[2] < R[2] - w
    \/ P[2] > R[4] + w

\* C14: for every rectangle R, edge width w >= 0 and point P outside R
\* expanded by w on all sides, get_hovered(P, w) is NONE; for every P inside
\* the expanded box it is a value other than NONE. The hover region the
\* canvas stores is the one get_hovered gives for its edge width.
C14_NoneOutsideExpandedBox ==
    LET R == Store[1].position
        P == cursor_position
    IN  /\ \A w \in 0..MaxEdgeWidth :
               IF C14_Outside(R, P, w)
               THEN get_hovered(R, P, w) = NONE
               ELSE get_hovered(R, P, w) # NONE
        /\ Store[1].hovered = get_hovered(R, P, edge_width(Self))
        /\ C14_Outside(R, P, edge_width(Self)) <=> hovered_anno = 0

\* The pointer has moved to a point on the line of the left edge of
\* (0, 0, 5, 15) but more than the edge width below it: nothing is hovered;
\* and with the edge width 5 the same point would be in the expanded box.
C14_Witness ==
    /\ steps = 1
    /\ Store[1].position = <<0, 0, 5, 15>>
    /\ cursor_position = <<0, 20>>
    /\ edge_width(Self) = 4
    /\ Store[1].hovered = NONE
    /\ hovered_anno = 0
    /\ get_hovered(Store[1].position, cursor_position, 5) # NONE

\* The distance from the point to the fixed coordinate of each edge.
C15_Distance(R, P) ==
    LET dist(a, b) == IF a < b THEN b - a ELSE a - b
    IN  [left |-> dist(P[1], R[1]), top |-> dist(P[2], R[2]),
         right |-> dist(P[1], R[3]), bottom |-> dist(P[2], R[4])]

\* C15: for every rectangle R, edge width w and point P strictly inside R
\* whose distance to each of the four edge coordinates exceeds w,
\* get_hovered(P, w) is FULL; otherwise, for P inside the expanded box, it
\* is exactly the bitwise OR of the edge bits whose fixed coordinate is
\* within w of P.
C15_FullOrEdgeBits ==
    LET R == Store[1].position
        P == cursor_position
        d == C15_Distance(R, P)
    IN  \A w \in 0..MaxEdgeWidth :
            LET hover_type == get_hovered(R, P, w)
                beyond == /\ R[1] < P[1] /\ P[1] < R[3]
                          /\ R[2] < P[2] /\ P[2] < R[4]
                          /\ d.left > w /\ d.top > w
                          /\ d.right > w /\ d.bottom > w
            IN  IF beyond THEN hover_type = FULL
                ELSE ~C14_Outside(R, P, w) =>
                         /\ hover_type \in 2..31
                         /\ ~HasBit(hover_type, FULL)
                         /\ HasBit(hover_type, TOP) <=> d.top <= w
                         /\ HasBit(hover_type, LEFT) <=> d.left <= w
                         /\ HasBit(hover_type, RIGHT) <=> d.right <= w
                         /\ HasBit(hover_type, BOTTOM) <=> d.bottom <= w

\* The pointer has moved to (5, 5) inside (0, 0, 15, 15): more than the
\* edge width 4 from every edge, so the body is hovered, and with the edge
\* width 5 the left and the top edge are.
C15_Witness ==
    /\ steps = 1
    /\ Store[1].position = <<0, 0, 15, 15>>
    /\ cursor_position = <<5, 5>>
    /\ edge_width(Self) = 4
    /\ Store[1].hovered = FULL
    /\ hovered_anno = 1
    /\ get_hovered(Store[1].position, cursor_position, 5) = TOP_LEFT

\* C16: get_scale never raises a division-by-zero error: with an image
\* loaded and a canvas of zero width or zero height (or an image with a zero
\* dimension) it gives the scale 1.0, and the edge width computed from it in
\* set_hovered_annotation is never a division by zero either.
C16_NoDivisionByZero ==
    /\ ~raised
    /\ get_scale(Self) # ZeroDivisionError
    /\ ~edge_width_raises(Self)
    /\ (\/ canvas_size[1] = 0 \/ canvas_size[2] = 0
        \/ pixmap[1] = 0 \/ pixmap[2] = 0) => get_scale(Self) = <<1, 1>>

\* a <= b for fractions with positive denominators
C18_Leq(a, b) == a[1] * b[2] <= b[1] * a[2]

\* C18: for every positive canvas size (cw, ch), positive image size
\* (iw, ih) and zoom level z, get_scale is z * min(cw / iw, ch / ih), also
\* when the aspect ratios are equal; with no image loaded it is 1.0.
C18_ScaleIsZoomedMin ==
    LET scale == get_scale(Self)
        by_width == <<canvas_size[1] * zoom_level[1], pixmap[1] * zoom_level[2]>>
        by_height == <<canvas_size[2] * zoom_level[1], pixmap[2] * zoom_level[2]>>
    IN  /\ pixmap = <<0, 0>> => scale = <<1, 1>>
        /\ (/\ canvas_size[1] > 0 /\ canvas_size[2] > 0
            /\ pixmap[1] > 0 /\ pixmap[2] > 0) =>
               /\ C18_Leq(scale, by_width)
               /\ C18_Leq(scale, by_height)
               /\ \/ C18_Leq(by_width, scale)
                  \/ C18_Leq(by_height, scale)

\* The 1600x1000 image on the 800x500 canvas, the aspect ratios equal,
\* zoomed to 2: the scale is 1 and the edge width 8; and the 800x600 image
\* on the 400x300 canvas has the scale 1/2.
C18_Witness ==
    /\ steps = 2
    /\ pixmap = <<1600, 1000>>
    /\ canvas_size = <<CanvasW, CanvasH>>
    /\ zoom_level = <<2, 1>>
    /\ cursor_position = <<5, 5>>
    /\ hovered_anno = 1
    /\ C18_Leq(get_scale(Self), <<1, 1>>)
    /\ C18_Leq(<<1, 1>>, get_scale(Self))
    /\ edge_width(Self) = 8
    /\ LET scenario == [Self EXCEPT !.pixmap = <<800, 600>>,
                                    !.canvas_size = <<400, 300>>,
                                    !.zoom_level = <<1, 1>>]
       IN  /\ C18_Leq(get_scale(scenario), <<1, 2>>)
           /\ C18_Leq(<<1, 2>>, get_scale(scenario))

\* The variables of the canvas other than the dirty flag.
C17_Canvas ==
    <<annotations, objs, selected_annos, hovered_anno, clipboard,
      annotating_state, anno_first_corner, quick_create, previous_label,
      image_name, pixmap, cursor_position, left_clicked, canvas_size,
      zoom_level>>

C19_OnlyHoveredCarriesRegion ==
    \A i \in DOMAIN annotations :
        annotations[i] # hovered_anno => Store[i].hovered = NONE

\* The annotation the claim names: none in Armed and Drawing, otherwise the
\* latest-inserted annotation that is not hidden and whose get_hovered of
\* the cursor is not NONE, or none.
C20_Expected ==
    LET hits == {i \in DOMAIN annotations :
                    /\ ~Store[i].hidden
                    /\ get_hovered(Store[i].position, cursor_position,
                                   edge_width(Self)) # NONE}
        topmost == CHOOSE i \in hits : \A j \in hits : j <= i
    IN  IF annotating_state \in {"READY", "DRAWING"} \/ hits = {} THEN 0
        ELSE annotations[topmost]

\* C20: after hover recomputation, the hovered annotation is none whenever
\* the state is Armed or Drawing; otherwise it is the latest-inserted
\* (topmost) non-hidden annotation whose get_hovered classification of the
\* cursor is not NONE, or none if there is no such annotation. A hidden
\* annotation is never the hovered one, and a lower annotation never when a
\* higher visible one also matches.
C20_TopmostVisibleHit ==
    /\ set_hovered_annotation(Self).hovered_anno = C20_Expected
    /\ hovered_anno = C20_Expected
    /\ hovered_anno # 0 =>
           /\ hovered_anno \in Range(annotations)
           /\ ~objs[hovered_anno].hidden
           /\ objs[hovered_anno].hovered =
                  get_hovered(objs[hovered_anno].position, cursor_position,
                              edge_width(Self))

\* On b.png the pointer is at (10, 10), over both annotations; the upper
\* one was selected and hidden, and the lower one is the hovered one.
C20_Witness ==
    /\ steps = 3
    /\ left_clicked
    /\ image_name = "b.png"
    /\ cursor_position = <<10, 10>>
    /\ selected_annos = <<2>>
    /\ Store[2].hidden
    /\ get_hovered(Store[2].position, cursor_position, edge_width(Self)) # NONE
    /\ hovered_anno = 1
    /\ Store[1].hovered = BOTTOM_RIGHT

\* The primary press of the event loop while Idle.
C21_Press(ctrl) ==
    /\ annotating_state = "IDLE"
    /\ Step(on_mouse_left_press([Self EXCEPT !.left_clicked = TRUE], ctrl, ""))

\* C21: on a primary press while Idle, with the modifier held the hovered
\* annotation is appended to the selection unless no annotation is hovered
\* or that very annotation is already in the selection (then nothing
\* changes), the annotations selected before staying selected in their
\* order; without the modifier the selection becomes exactly the hovered
\* annotation, or empty if none is hovered. In both cases the store and the
\* annotating state are unchanged.
C21_IdlePressSelects ==
    [][\A ctrl \in BOOLEAN :
          C21_Press(ctrl) =>
              /\ annotations' = annotations
              /\ Contents' = Contents
              /\ annotating_state' = "IDLE"
              /\ selected_annos' =
                     IF ctrl
                     THEN IF \/ hovered_anno = 0
                             \/ hovered_anno \in Range(selected_annos)
                          THEN selected_annos
                          ELSE Append(selected_annos, hovered_anno)
                     ELSE IF hovered_anno = 0 THEN <<>>
                          ELSE <<hovered_anno>>]_vars

\* The delta the held keys stand for: one pixel per key, opposite keys
\* cancelling.
C22_Delta(pressed_keys) ==
    LET held(key) == IF key \in pressed_keys THEN 1 ELSE 0
    IN  <<held("Right") - held("Left"), held("Down") - held("Up")>>

\* Every coordinate of q is within 1 of that of p.
C22_Near(p, q) ==
    \A k \in 1..4 : p[k] - q[k] \in {-1, 0, 1}

\* C22: move_annotation_arrow with a non-empty selection applies
\* move_annotation with a delta in {-1, 0, 1}^2 (from the held arrow keys,
\* opposite keys cancelling) to the last element of the selection only:
\* afterwards the selection is exactly that annotation, the rectangle of
\* every other annotation is unchanged and each coordinate of the moved one
\* changed by at most 1. With an empty selection it changes nothing.
C22_ArrowMovesLastSelected ==
    [][\A pressed_keys \in ArrowKeySets :
          Step(move_annotation_arrow(Self, pressed_keys)) =>
              IF selected_annos = <<>>
              THEN /\ C17_Canvas' = C17_Canvas
                   /\ unsaved_changes' = unsaved_changes
              ELSE LET last == selected_annos[Len(selected_annos)]
                       now == IF last \in Range(annotations) THEN last
                              ELSE Len(annotations) + 1
                       delta == C22_Delta(pressed_keys)
                   IN  /\ delta[1] \in {-1, 0, 1}
                       /\ delta[2] \in {-1, 0, 1}
                       /\ selected_annos' = <<now>>
                       /\ annotations' = annotations
                       /\ objs'[now].selected
                       /\ objs'[now].position =
                              move_annotation(Self, last, delta).objs[last].position
                       /\ C22_Near(objs[last].position, objs'[now].position)
                       /\ \A i \in DOMAIN annotations :
                              annotations[i] # last =>
                                  /\ Store'[i].position = Store[i].position
                                  /\ ~Store'[i].selected]_vars

\* Both annotations of b.png were copied and pasted, which selects the two
\* copies, and the Right key has moved the left edge of the last selected
\* one, the copy of (0, 0, 10, 10): it alone is selected now.
C22_Witness ==
    /\ steps = 4
    /\ Len(annotations) = 4
    /\ selected_annos = <<3>>
    /\ Store[3].position = <<1, 0, 10, 10>>
    /\ Store[4].position = <<5, 5, 15, 15>>
    /\ ~Store[4].selected
    /\ unsaved_changes

\* C23: when the quick-create flag is set at a commit (a primary press in
\* Drawing), the new annotation receives the most recently used label, the
\* label picker is never invoked, so that its answer is of no effect, and
\* the flag is clear afterwards; in every state in which the flag is set,
\* those before any annotation was created included.
C23_QuickCreateNeverPrompts ==
    [][\A ctrl \in BOOLEAN, picked \in Picks :
          (/\ quick_create
           /\ annotating_state = "DRAWING"
           /\ C11_Press(ctrl, picked)) =>
              /\ ~quick_create'
              /\ Len(annotations') = Len(annotations) + 1
              /\ previous_label # ""
              /\ Store'[Len(annotations')].label_name = previous_label
              /\ \A other \in Picks :
                     on_mouse_left_press(Self, ctrl, other)
                         = on_mouse_left_press(Self, ctrl, picked)]_vars

\* C24: in every reachable state the pending first corner is present if
\* and only if the annotating state is Drawing: it is absent in Idle and in
\* Armed, whatever the sequence of start-annotating commands, presses,
\* pastes and resets, a start-annotating command issued while Drawing
\* included.
C24_CornerIffDrawing ==
    anno_first_corner # <<>> <=> annotating_state = "DRAWING"

\* C25: delete_annotations removes from the store exactly the annotations
\* that are selected, keeps every unselected annotation with its rectangle,
\* label and hidden flag unchanged and in the same relative order, and sets
\* the dirty flag.
C25_DeleteRemovesSelected ==
    [][DeleteAnnotations =>
          LET chosen == Range(selected_annos)
              kept == SelectSeq(annotations, LAMBDA a : a \notin chosen)
          IN  /\ \A a \in Range(annotations) : objs[a].selected <=> a \in chosen
              /\ Len(annotations') = Len(kept)
              /\ Contents' = [i \in DOMAIN kept |->
                                 <<objs[kept[i]].position, objs[kept[i]].label_name,
                                   objs[kept[i]].hidden>>]
              /\ unsaved_changes']_vars

\* Of the two annotations of b.png the lower one was selected by a press
\* and deleted: the upper one is the store.
C25_Witness ==
    /\ steps = 3
    /\ image_name = "b.png"
    /\ left_clicked
    /\ Len(annotations) = 1
    /\ Store[1].position = <<5, 5, 15, 15>>
    /\ Store[1].label_name = "dog"
    /\ unsaved_changes

\* The rectangles and labels the clipboard holds.
C26_Clipboard ==
    [i \in DOMAIN clipboard |-> <<clipboard[i].position, clipboard[i].label_name>>]

\* C26: the clipboard is an independent snapshot: after copy_annotations no
\* move, rename, hide, delete or selection change on annotations of the
\* store alters the rectangles or labels the clipboard holds, and
\* paste_annotations leaves the clipboard as it is; the annotations of two
\* pastes are independent of each other: moving or renaming one of them
\* changes neither the clipboard, the original nor the other copy.
C26_ClipboardIndependent ==
    [][/\ C26_Clipboard' # C26_Clipboard => CopyAnnotations
       /\ \A pressed_keys \in ArrowKeySets :
              (/\ selected_annos # <<>>
               /\ Step(move_annotation_arrow(Self, pressed_keys))) =>
                  \A i \in DOMAIN annotations :
                      annotations[i] # selected_annos[Len(selected_annos)] =>
                          Contents'[i] = Contents[i]
       /\ RenameAnnotations =>
              \A i \in DOMAIN annotations :
                  annotations[i] \notin Range(selected_annos) =>
                      Contents'[i] = Contents[i]]_vars

\* The annotation of a.png was copied and pasted twice, and the Right key
\* has moved the left edge of the second copy: the clipboard, the original
\* and the first copy hold the rectangle (0, 0, 5, 5) still.
C26_Witness ==
    /\ steps = 5
    /\ Len(annotations) = 3
    /\ Len(clipboard) = 1
    /\ clipboard[1].position = <<0, 0, 5, 5>>
    /\ Store[1].position = <<0, 0, 5, 5>>
    /\ Store[2].position = <<0, 0, 5, 5>>
    /\ Store[3].position = <<1, 0, 5, 5>>
    /\ selected_annos = <<3>>

\* One of the edges lo and hi of an axis is an edge of that axis still.
C27_OneEdgeStays(lo, hi, lo_after, hi_after) ==
    lo \in {lo_after, hi_after} \/ hi \in {lo_after, hi_after}

\* C27: whenever the hover region of the moved annotation contains at least
\* one edge bit (it is neither NONE nor FULL), a move_annotation event
\* changes at most one edge on each axis: a resize never translates the box
\* along an axis, also not with a combined region such as TOP|BOTTOM or
\* LEFT|RIGHT, which get_hovered gives for boxes thinner than twice the
\* edge width.
C27_ResizeNeverTranslates ==
    [][(/\ hovered_anno # 0
        /\ Store[1].hovered \notin {NONE, FULL}
        /\ ResizeDrag) =>
           LET before == Store[1].position
               after == Store'[1].position
           IN  /\ C27_OneEdgeStays(before[1], before[3], after[1], after[3])
               /\ C27_OneEdgeStays(before[2], before[4], after[2], after[4])]_vars

\* C28: no pending change is lost or misattributed when the image changes:
\* whenever the dirty flag is set while an image is loaded, a save with that
\* image's name and store happens before reset, load_image or
\* load_annotations replaces the store, so that no store is discarded while
\* dirty, and save_progress never carries the name of an image with the
\* store of a canvas that holds it no longer.
C28_NoChangeLost ==
    [][/\ (pixmap # <<0, 0>> /\ (Reset \/ ImageChange)) => ~unsaved_changes
       /\ \A i \in DOMAIN saved' : saved'[i][1] # "" => saved'[i][2] # <<0, 0>>]_vars
====
